---- MODULE Spec2Model ----
(***************************************************************************)
(* A model of src/highz_exp/reflection_proc.py: the S1P loader, the        *)
(* cable/LNA reflection combiner, the reflected-power converter, the two   *)
(* curve fitters and the three plotting functions.                         *)
(*                                                                         *)
(* Every function of the module is one action.  The state is the file     *)
(* system the functions read and write (files, dirs) and the record of the *)
(* last call: its arguments (call), what it returned or raised (ret), the  *)
(* state of its argument objects afterwards (argsAfter) and the ordered    *)
(* trace of its effects (trace): solver calls, console output, files       *)
(* written, directories made, figures shown.  files0/dirs0 hold the file   *)
(* system as the last call found it, ncalls counts the calls made.         *)
(*                                                                         *)
(* The three functions without effects (load_s1p, LNA_total_reflection,    *)
(* s11_reflected_power) start from a pending call whose arguments the      *)
(* initial state draws; the fitters and the plotting functions draw their  *)
(* arguments when they are called, and calls follow one another on the     *)
(* file system the earlier ones left.  Figures pyplot keeps open between   *)
(* calls are not part of the state.                                        *)
(*                                                                         *)
(* Text is a sequence of fragments in which a space is always a fragment   *)
(* of its own; a literal of the source is one fragment.                    *)
(* Complex numbers are exact: [re, im, d] is (re + i*im)/d in lowest       *)
(* terms, and d = 0 is the non-finite value a division by zero yields.     *)
(***************************************************************************)
EXTENDS Integers, Sequences, FiniteSets, TLC

VARIABLES files, dirs, files0, dirs0, call, ret, argsAfter, trace, ncalls

vars == <<files, dirs, files0, dirs0, call, ret, argsAfter, trace, ncalls>>

----------------------------------------------------------------------------
(* Bounds of the model *)

\* calls of the fitters in one behaviour
MaxCalls == 2
\* calls of the plotting functions in one behaviour
MaxPlotCalls == 1
\* frequency points of a response
MaxPts == 2
\* length of the file list and of the label list given to load_s1p
MaxFiles == 2

----------------------------------------------------------------------------
(* Python values *)

\* an optional argument: None, or a value
None == [isNone |-> TRUE]

Some(x) == [isNone |-> FALSE, val |-> x]

\* what a call yields
Return(v) == [kind |-> "return", val |-> v]

Raise(e) == [kind |-> "raise", err |-> e]

Pending == [kind |-> "pending"]

Min(a, b) == IF a <= b THEN a ELSE b

Abs(n) == IF n < 0 THEN 0 - n ELSE n

RECURSIVE GCD(_, _)
GCD(a, b) == IF b = 0 THEN Abs(a) ELSE GCD(b, a % Abs(b))

\* the builtin zip: pairs up to the shorter of the two sequences
zip(xs, ys) == [i \in 1..Min(Len(xs), Len(ys)) |-> <<xs[i], ys[i]>>]

\* str.replace(old, new) for a one-character old
replace(str, old, new) == [i \in 1..Len(str) |-> IF str[i] = old THEN new ELSE str[i]]

\* bounded sequences over S
SeqUpTo(S, n) == UNION {[1..k -> S] : k \in 0..n}

----------------------------------------------------------------------------
(* dict: insertion-ordered, keys unique; a sequence of <<key, value>> *)

keys(d) == [i \in 1..Len(d) |-> d[i][1]]

KeySet(d) == {d[i][1] : i \in 1..Len(d)}

HasKey(d, k) == k \in KeySet(d)

\* d[k]
Get(d, k) == LET i == CHOOSE j \in 1..Len(d) : d[j][1] = k IN d[i][2]

\* a mutant of DictSet: dict.setdefault, the first value under a key stays
DictSet_keepFirst(d, k, v) ==
    IF HasKey(d, k) THEN d ELSE Append(d, <<k, v>>)

\* d[k] = v: a key already present keeps its place and takes the new value
DictSet(d, k, v) ==
    IF HasKey(d, k)
    THEN [i \in 1..Len(d) |-> IF d[i][1] = k THEN <<k, v>> ELSE d[i]]
    ELSE Append(d, <<k, v>>)

----------------------------------------------------------------------------
(* complex128 values, exact *)

Cx(re, im, d) ==
    IF d = 0 THEN [re |-> 0, im |-> 0, d |-> 0]
    ELSE LET g == GCD(GCD(re, im), d)
             sg == IF d < 0 THEN 0 - 1 ELSE 1
         IN [re |-> (sg * re) \div g, im |-> (sg * im) \div g, d |-> (sg * d) \div g]

NonFinite == [re |-> 0, im |-> 0, d |-> 0]

IsFinite(z) == z.d # 0

CZero == Cx(0, 0, 1)

COne == Cx(1, 0, 1)

CMul(a, b) ==
    IF ~IsFinite(a) \/ ~IsFinite(b) THEN NonFinite
    ELSE Cx(a.re * b.re - a.im * b.im, a.re * b.im + a.im * b.re, a.d * b.d)

CSub(a, b) ==
    IF ~IsFinite(a) \/ ~IsFinite(b) THEN NonFinite
    ELSE Cx(a.re * b.d - b.re * a.d, a.im * b.d - b.im * a.d, a.d * b.d)

CAdd(a, b) ==
    IF ~IsFinite(a) \/ ~IsFinite(b) THEN NonFinite
    ELSE Cx(a.re * b.d + b.re * a.d, a.im * b.d + b.im * a.d, a.d * b.d)

\* a / b = a * conj(b) / |b|^2; a zero divisor yields inf/nan, with a warning only
CDiv(a, b) ==
    IF ~IsFinite(a) \/ ~IsFinite(b) THEN NonFinite
    ELSE LET n2 == b.re * b.re + b.im * b.im
         IN IF n2 = 0 THEN NonFinite
            ELSE Cx((a.re * b.re + a.im * b.im) * b.d,
                    (a.im * b.re - a.re * b.im) * b.d,
                    a.d * n2)

----------------------------------------------------------------------------
(* Paths and the file system *)

Cwd == "cwd"

\* os.path.join(dir, name), for a relative name
pjoin(dir, name) == [dir |-> dir, name |-> name]

\* os.path.basename: the final path segment
pbase(path) == path.name

\* a bare file name is relative to the working directory
InCwd(name) == [dir |-> Cwd, name |-> name]

\* os.getcwd()
getcwd == Cwd

\* os.path.exists, for a directory
exists(ds, dir) == dir \in ds

\* os.makedirs
makedirs(ds, dir) == ds \cup {dir}

\* open(path, "w").write(content): the file is created or replaced
WriteFile(fs, path, content) ==
    [p \in DOMAIN fs \cup {path} |-> IF p = path THEN content ELSE fs[p]]

----------------------------------------------------------------------------
(* rf.Network: a frequency grid f (Hz) and one complex value s per point *)

\* rf.Network(s=..., f=...)
Network(sv, fv) == [f |-> fv, s |-> sv]

\* Network.write_touchstone: the text of the file
Touchstone(ntwk) == [kind |-> "touchstone", f |-> ntwk.f, s |-> ntwk.s]

Garbage == [kind |-> "text"]

\* rf.Network(file): parse the file at path
CanParse(fs, path) == path \in DOMAIN fs /\ fs[path].kind = "touchstone"

ReadNetwork(fs, path) == Network(fs[path].s, fs[path].f)

\* two frequency grids of n points that share no point
GridA(n) == [i \in 1..n |-> 100 * i]

GridB(n) == [i \in 1..n |-> 100 * i + 50]

\* the values a response takes in the model: 0, 1, i/2, -i
CVals == {Cx(0, 0, 1), Cx(1, 0, 1), Cx(0, 1, 2), Cx(0, 0 - 1, 1)}

\* every response of the model
Networks ==
    UNION {{Network(sv, fv) : sv \in [1..n -> CVals], fv \in {GridA(n), GridB(n)}} :
           n \in 1..MaxPts}

\* one fixed response of n points
Ramp(n, z) == Network([i \in 1..n |-> IF i = 1 THEN z ELSE Cx(1, 0, 1)], GridA(n))

----------------------------------------------------------------------------
(* The measurement files on disk *)

FileA_x == pjoin("data_a", <<"x.s1p">>)

FileB_x == pjoin("data_b", <<"x.s1p">>)

FileA_y == pjoin("data_a", <<"y.s1p">>)

FileA_bad == pjoin("data_a", <<"notes.s1p">>)

S1PFiles == {FileA_x, FileB_x, FileA_y, FileA_bad}

InitFiles ==
    (FileA_x :> Touchstone(Ramp(1, Cx(0, 1, 2)))) @@
    (FileB_x :> Touchstone(Ramp(2, Cx(0, 0, 1)))) @@
    (FileA_y :> Touchstone(Ramp(2, Cx(0, 0 - 1, 1)))) @@
    (FileA_bad :> Garbage)

InitDirs == {Cwd, "data_a", "data_b", "out"}

\* labels a caller gives
Labels == {<<"m">>, <<"f">>, <<"a", " ", "b">>}

\* the state a pending call of one of the pure functions starts from
InitCall(calls) ==
    /\ files = InitFiles /\ dirs = InitDirs
    /\ files0 = InitFiles /\ dirs0 = InitDirs
    /\ call \in calls
    /\ ret = Pending
    /\ argsAfter = None
    /\ trace = <<>>
    /\ ncalls = 0

----------------------------------------------------------------------------
(* load_s1p *)

\* the dict comprehension over zip(s1p_files, labels), pair by pair from pair i,
\* d the dict so far; a file that does not parse raises out of the comprehension
RECURSIVE LoadPairs(_, _, _, _)
LoadPairs(fs, pairs, i, d) ==
    IF i > Len(pairs) THEN Return(d)
    ELSE IF ~CanParse(fs, pairs[i][1]) THEN Raise("FileFormatError")
    ELSE LoadPairs(fs, pairs, i + 1, DictSet(d, pairs[i][2], ReadNetwork(fs, pairs[i][1])))

\* a mutant of DerivedLabels: the directory is kept in the label
DerivedLabels_withDir(s1p_files) ==
    [i \in 1..Len(s1p_files) |-> <<s1p_files[i].dir, "/">> \o pbase(s1p_files[i])]

\* labels = [pbase(f) for f in s1p_files]
DerivedLabels(s1p_files) == [i \in 1..Len(s1p_files) |-> pbase(s1p_files[i])]

load_s1p_fn(fs, s1p_files, labels) ==
    LET labels1 == IF labels.isNone THEN DerivedLabels(s1p_files) ELSE labels.val
    IN LoadPairs(fs, zip(s1p_files, labels1), 1, <<>>)

LoadCalls ==
    {[fn |-> "load_s1p", s1p_files |-> fl, labels |-> lb] :
        fl \in SeqUpTo(S1PFiles, MaxFiles),
        lb \in {None} \cup {Some(l) : l \in SeqUpTo(Labels, MaxFiles)}}

load_s1p ==
    /\ call.fn = "load_s1p" /\ ret = Pending
    /\ ret' = load_s1p_fn(files, call.s1p_files, call.labels)
    /\ argsAfter' = None
    /\ trace' = <<>>
    /\ files0' = files /\ dirs0' = dirs
    /\ ncalls' = ncalls + 1
    /\ UNCHANGED <<files, dirs, call>>

InitLoad == InitCall(LoadCalls)

SpecLoad == InitLoad /\ [][load_s1p]_vars

----------------------------------------------------------------------------
(* load_s1p: the claims *)

LoadDone == call.fn = "load_s1p" /\ ret # Pending

\* the labels the caller means: the ones given, or the base names of the files
MeantLabels ==
    IF call.labels.isNone
    THEN [i \in 1..Len(call.s1p_files) |-> call.s1p_files[i].name]
    ELSE call.labels.val

AllParse == \A i \in 1..Len(call.s1p_files) : CanParse(files0, call.s1p_files[i])

\* labels omitted, or as many labels as files
Parallel == call.labels.isNone \/ Len(call.labels.val) = Len(call.s1p_files)

\* the last position of the file list that carries label k
LastWith(k) ==
    CHOOSE i \in 1..Len(call.s1p_files) :
        /\ MeantLabels[i] = k
        /\ \A j \in (i + 1)..Len(call.s1p_files) : MeantLabels[j] # k

\* C1: a labels list whose length differs from the file list's makes load_s1p
\* fail with a LengthMismatchError; no mapping is returned.
C1_LengthMismatchRaises ==
    (LoadDone /\ ~call.labels.isNone /\ Len(call.labels.val) # Len(call.s1p_files))
        => ret = Raise("LengthMismatchError")

\* C2 as stated: for parseable files and parallel labels the mapping has one
\* entry per file, its key set is the label set, and the entry under the i-th
\* label is the response loaded from the i-th file.
C2_OneEntryPerFile ==
    (LoadDone /\ AllParse /\ Parallel) =>
        /\ ret.kind = "return"
        /\ Len(ret.val) = Len(call.s1p_files)
        /\ KeySet(ret.val) = {MeantLabels[i] : i \in 1..Len(call.s1p_files)}
        /\ \A i \in 1..Len(call.s1p_files) :
              /\ HasKey(ret.val, MeantLabels[i])
              /\ Get(ret.val, MeantLabels[i]) = ReadNetwork(files0, call.s1p_files[i])

\* C2 as amended: for parseable files and parallel labels the mapping has one
\* entry per distinct label, its key set is the label set, and the entry under
\* a label is the response loaded from the last file that carries it; so there
\* is one entry per file, the i-th label holding the i-th file's response,
\* exactly when the labels are pairwise distinct.
C2_OneEntryPerLabel ==
    (LoadDone /\ AllParse /\ Parallel) =>
        LET n == Len(call.s1p_files)
            distinct == \A i, j \in 1..n : MeantLabels[i] = MeantLabels[j] => i = j
        IN /\ ret.kind = "return"
           /\ KeySet(ret.val) = {MeantLabels[i] : i \in 1..n}
           /\ Len(ret.val) = Cardinality({MeantLabels[i] : i \in 1..n})
           /\ \A k \in KeySet(ret.val) :
                 Get(ret.val, k) = ReadNetwork(files0, call.s1p_files[LastWith(k)])
           /\ (Len(ret.val) = n) <=> distinct
           /\ distinct => \A i \in 1..n :
                 Get(ret.val, MeantLabels[i]) = ReadNetwork(files0, call.s1p_files[i])

\* two different files under one given label: one entry, the second file's
C2_Witness ==
    /\ LoadDone
    /\ call.s1p_files = <<FileA_x, FileA_y>>
    /\ call.labels = Some(<<(<<"m">>), (<<"m">>)>>)
    /\ ret = Return(<< <<(<<"m">>), ReadNetwork(files0, FileA_y)>> >>)

\* C9: with labels omitted the label is the final path segment only, so when
\* two paths of the list share a base name the returned mapping holds a single
\* entry for that base name, its value is the response of the last such file in
\* list order, and the mapping has fewer entries than files.
C9_BaseNameCollision ==
    (LoadDone /\ call.labels.isNone /\ ret.kind = "return") =>
        LET fl == call.s1p_files
            n == Len(fl)
        IN /\ KeySet(ret.val) = {fl[i].name : i \in 1..n}
           /\ \A i, j \in 1..n :
                 (i < j /\ fl[i].name = fl[j].name) =>
                    /\ Cardinality({e \in 1..Len(ret.val) : ret.val[e][1] = fl[i].name}) = 1
                    /\ Get(ret.val, fl[i].name) =
                          ReadNetwork(files0, fl[CHOOSE l \in 1..n :
                              /\ fl[l].name = fl[i].name
                              /\ \A h \in (l + 1)..n : fl[h].name # fl[i].name])
                    /\ Len(ret.val) < n

\* x.s1p of two directories: one entry, holding data_b's file
C9_Witness ==
    /\ LoadDone
    /\ call.labels.isNone
    /\ call.s1p_files = <<FileA_x, FileB_x>>
    /\ ret = Return(<< <<(<<"x.s1p">>), ReadNetwork(files0, FileB_x)>> >>)
    /\ ReadNetwork(files0, FileA_x) # ReadNetwork(files0, FileB_x)

----------------------------------------------------------------------------
(* numpy arrays: sequences; a binary operation broadcasts a one-element    *)
(* operand and fails on two lengths that differ otherwise                  *)

CanBroadcast(a, b) == Len(a) = Len(b) \/ Len(a) = 1 \/ Len(b) = 1

BroadcastLen(a, b) == IF Len(a) >= Len(b) THEN Len(a) ELSE Len(b)

At(a, i) == IF Len(a) = 1 THEN a[1] ELSE a[i]

\* a * b and a / b, element by element
ArrMul(a, b) == [i \in 1..BroadcastLen(a, b) |-> CMul(At(a, i), At(b, i))]

ArrDiv(a, b) == [i \in 1..BroadcastLen(a, b) |-> CDiv(At(a, i), At(b, i))]

----------------------------------------------------------------------------
(* LNA_total_reflection *)

\* a mutant of OneMinus: the sign of the round-trip term is flipped
OneMinus_plus(prod) == [i \in 1..Len(prod) |-> CAdd(COne, prod[i])]

\* 1 - rho_cable*rho_LNA, given the product
OneMinus(prod) == [i \in 1..Len(prod) |-> CSub(COne, prod[i])]

\* the call's result and the two argument objects as the call leaves them
LNA_total_reflection_fn(rho_cable_ntwk, rho_LNA_ntwk) ==
    LET rho_cable == rho_cable_ntwk.s
        rho_LNA == rho_LNA_ntwk.s
        after == [rho_cable_ntwk |-> rho_cable_ntwk, rho_LNA_ntwk |-> rho_LNA_ntwk]
    IN IF ~CanBroadcast(rho_cable, rho_LNA)
       THEN [ret |-> Raise("ValueError"), args |-> after]
       ELSE LET den == OneMinus(ArrMul(rho_cable, rho_LNA))
                num == ArrMul(rho_cable, <<COne>>)
                a_lna == ArrDiv(num, den)
            IN [ret |-> Return(Network(a_lna, rho_cable_ntwk.f)), args |-> after]

CombineCalls ==
    {[fn |-> "LNA_total_reflection", rho_cable_ntwk |-> c, rho_LNA_ntwk |-> l] :
        c \in Networks, l \in Networks}

LNA_total_reflection ==
    /\ call.fn = "LNA_total_reflection" /\ ret = Pending
    /\ LET out == LNA_total_reflection_fn(call.rho_cable_ntwk, call.rho_LNA_ntwk)
       IN /\ ret' = out.ret
          /\ argsAfter' = out.args
    /\ trace' = <<>>
    /\ files0' = files /\ dirs0' = dirs
    /\ ncalls' = ncalls + 1
    /\ UNCHANGED <<files, dirs, call>>

InitCombine == InitCall(CombineCalls)

SpecCombine == InitCombine /\ [][LNA_total_reflection]_vars

\* C6: LNA_total_reflection returns a response on rho_cable's frequency grid
\* whose value at every point i is rho_cable[i] / (1 - rho_cable[i]*rho_LNA[i])
\* (non-finite where that denominator is zero); where rho_LNA[i] = 0 the value
\* is rho_cable[i] exactly; neither input response is modified.
C6_CombinedReflection ==
    (call.fn = "LNA_total_reflection" /\ ret # Pending
        /\ Len(call.rho_cable_ntwk.s) = Len(call.rho_LNA_ntwk.s)) =>
        LET c == call.rho_cable_ntwk.s
            l == call.rho_LNA_ntwk.s
        IN /\ ret.kind = "return"
           /\ ret.val.f = call.rho_cable_ntwk.f
           /\ Len(ret.val.s) = Len(c)
           /\ \A i \in 1..Len(c) :
                 LET den == CSub(COne, CMul(c[i], l[i]))
                 IN /\ den = CZero => ~IsFinite(ret.val.s[i])
                    /\ den # CZero => CMul(ret.val.s[i], den) = c[i]
                    /\ l[i] = CZero => ret.val.s[i] = c[i]
           /\ argsAfter.rho_cable_ntwk = call.rho_cable_ntwk
           /\ argsAfter.rho_LNA_ntwk = call.rho_LNA_ntwk

\* two points on different grids: -i against i/2 gives -2i, 1 against 0 gives 1
C6_Witness ==
    /\ call.fn = "LNA_total_reflection" /\ ret # Pending
    /\ call.rho_cable_ntwk = Network(<<Cx(0, 0 - 1, 1), Cx(1, 0, 1)>>, GridA(2))
    /\ call.rho_LNA_ntwk = Network(<<Cx(0, 1, 2), Cx(0, 0, 1)>>, GridB(2))
    /\ ret = Return(Network(<<Cx(0, 0 - 2, 1), Cx(1, 0, 1)>>, GridA(2)))

----------------------------------------------------------------------------
(* s11_reflected_power *)

(* A float of this function is exact too: [n, d, t] is (n/d) * 10^(t/10),  *)
(* n/d in lowest terms, d > 0 and 0 <= t <= 9; zero is [0, 1, 0].          *)

RECURSIVE IPow(_, _)
IPow(b, k) == IF k = 0 THEN 1 ELSE b * IPow(b, k - 1)

Real(n, d, t) ==
    IF n = 0 THEN [n |-> 0, d |-> 1, t |-> 0]
    ELSE LET g == GCD(n, d) IN [n |-> n \div g, d |-> d \div g, t |-> t]

\* the default of p_in_k
P_IN_K_DEFAULT == 50

\* a mutant of Exponent: integer division, as "/" divides two ints in Python 2
Exponent_floor(s11_db) == 10 * (s11_db \div 10)

\* s11_db / 10: true division; the quotient is held in tenths
Exponent(s11_db) == s11_db

\* 10 ** x, x in tenths
Pow10(x) ==
    LET k == x \div 10
    IN IF k >= 0 THEN Real(IPow(10, k), 1, x % 10) ELSE Real(1, IPow(10, 0 - k), x % 10)

\* p * R for a number p
Scale(p, R) == Real(p * R.n, R.d, R.t)

\* s11_db is one number [arr |-> FALSE, x |-> x] or an array [arr |-> TRUE, xs |-> xs]
s11_reflected_power_fn(s11_db, p_in_k) ==
    LET p == IF p_in_k.isNone THEN P_IN_K_DEFAULT ELSE p_in_k.val
    IN IF s11_db.arr
       THEN LET R == [i \in 1..Len(s11_db.xs) |-> Pow10(Exponent(s11_db.xs[i]))]
            IN [arr |-> TRUE, xs |-> [i \in 1..Len(R) |-> Scale(p, R[i])]]
       ELSE LET R == Pow10(Exponent(s11_db.x))
            IN [arr |-> FALSE, x |-> Scale(p, R)]

\* S11 values in dB and input powers in kelvin
DbVals == {0 - 20, 0 - 13, 0 - 3, 0, 3, 10}

PowerVals == {0, 1, 50, 300}

PowerCalls ==
    {[fn |-> "s11_reflected_power", s11_db |-> s, p_in_k |-> p] :
        s \in {[arr |-> FALSE, x |-> x] : x \in DbVals}
              \cup {[arr |-> TRUE, xs |-> xs] : xs \in SeqUpTo(DbVals, MaxPts)},
        p \in {None} \cup {Some(x) : x \in PowerVals}}

s11_reflected_power ==
    /\ call.fn = "s11_reflected_power" /\ ret = Pending
    /\ ret' = Return(s11_reflected_power_fn(call.s11_db, call.p_in_k))
    /\ argsAfter' = None
    /\ trace' = <<>>
    /\ files0' = files /\ dirs0' = dirs
    /\ ncalls' = ncalls + 1
    /\ UNCHANGED <<files, dirs, call>>

InitPower == InitCall(PowerCalls)

SpecPower == InitPower /\ [][s11_reflected_power]_vars

\* v is p * 10^(s/10)
IsReflected(v, p, s) ==
    LET k == s \div 10
    IN IF p = 0 THEN v.n = 0
       ELSE /\ v.t = s % 10
            /\ k >= 0 => v.n = p * IPow(10, k) * v.d
            /\ k < 0 => v.n * IPow(10, 0 - k) = p * v.d

\* C8: s11_reflected_power(s11_db, p_in) returns p_in * 10**(s11_db/10) for
\* every input (element by element for an array; p_in is 50 when omitted), at
\* s11_db = 0 the result is p_in itself, and the call has no side effect and
\* no error path.
C8_ReflectedPower ==
    (call.fn = "s11_reflected_power" /\ ret # Pending) =>
        LET p == IF call.p_in_k.isNone THEN 50 ELSE call.p_in_k.val
            s == call.s11_db
        IN /\ ret.kind = "return"
           /\ ret.val.arr = s.arr
           /\ s.arr =>
                 /\ Len(ret.val.xs) = Len(s.xs)
                 /\ \A i \in 1..Len(s.xs) :
                       /\ IsReflected(ret.val.xs[i], p, s.xs[i])
                       /\ s.xs[i] = 0 => ret.val.xs[i] = [n |-> p, d |-> 1, t |-> 0]
           /\ ~s.arr =>
                 /\ IsReflected(ret.val.x, p, s.x)
                 /\ s.x = 0 => ret.val.x = [n |-> p, d |-> 1, t |-> 0]
           /\ trace = <<>>
           /\ files = files0 /\ dirs = dirs0

\* -13 dB of 300 K is 300 * 10^(-2) * 10^(7/10) = 3 * 10^(7/10), about 15.04 K
C8_Witness ==
    /\ call.fn = "s11_reflected_power" /\ ret # Pending
    /\ call.s11_db = [arr |-> FALSE, x |-> 0 - 13]
    /\ call.p_in_k = Some(300)
    /\ ret = Return([arr |-> FALSE, x |-> [n |-> 3, d |-> 1, t |-> 7]])

----------------------------------------------------------------------------
(* The fitters: fit_exp_decay and fit_reflection_coeff *)

\* the state no call has been made in
Idle == [kind |-> "idle"]

InitIdle ==
    /\ files = InitFiles /\ dirs = InitDirs
    /\ files0 = InitFiles /\ dirs0 = InitDirs
    /\ call = [fn |-> "none"]
    /\ ret = Idle
    /\ argsAfter = None
    /\ trace = <<>>
    /\ ncalls = 0

\* np.concatenate([gamma.real, gamma.imag]); a real number is <<numerator, denominator>>
RealImag(gamma) ==
    [i \in 1..Len(gamma) |-> <<gamma[i].re, gamma[i].d>>] \o
    [i \in 1..Len(gamma) |-> <<gamma[i].im, gamma[i].d>>]

\* parameter vectors the solver may come back with: A_real, A_imag, t_delay (, alpha)
Popts(n) ==
    IF n = 3 THEN {<<1, 0, 0>>, <<0, 1, 2>>}
    ELSE {<<1, 0, 0, 0>>, <<0, 1, 2, 1>>}

(* scipy.optimize.curve_fit(model, xdata, ydata, p0): every outcome the     *)
(* solver can have.  With fewer data values than parameters it raises a    *)
(* TypeError; otherwise it either fails to converge (RuntimeError) or      *)
(* returns optimal parameters, which the model leaves open.                *)
curve_fit(xdata, ydata, p0) ==
    IF Len(ydata) < Len(p0) THEN {Raise("TypeError")}
    ELSE {Raise("RuntimeError")} \cup {Return(popt) : popt \in Popts(Len(p0))}

\* the value A * exp(-alpha*f) * exp(1j*2*pi*f*t_delay), kept as a term
ModelValue(A, alpha, t_delay, f) == [amp |-> A, decay |-> alpha, delay |-> t_delay, at |-> f]

\* a mutant of fit_exp_decay_fn: a failed fit falls back to the initial guess
fit_exp_decay_fn_fallback(fs, s1p_ntwk, guess_A_real, guess_A_imag, guess_delay, guess_alpha, save_path, outcome) ==
    LET f == s1p_ntwk.f
        p0 == <<guess_A_real, guess_A_imag, guess_delay, guess_alpha>>
        solve == [ev |-> "curve_fit", xdata |-> f, ydata |-> RealImag(s1p_ntwk.s),
                  p0 |-> p0, outcome |-> outcome]
        popt == IF outcome.kind = "raise" THEN p0 ELSE outcome.val
        A_fitted == <<popt[1], popt[2]>>
        s1p_fitted == [i \in 1..Len(f) |-> ModelValue(A_fitted, popt[4], popt[3], f[i])]
        s1p_fitted_ntwk == Network(s1p_fitted, f)
    IN IF save_path.isNone
       THEN [ret |-> Return(<<A_fitted, popt[3], popt[4], s1p_fitted_ntwk>>),
             files |-> fs, trace |-> <<solve>>]
       ELSE [ret |-> Return(<<A_fitted, popt[3], popt[4], s1p_fitted_ntwk>>),
             files |-> WriteFile(fs, save_path.val, Touchstone(s1p_fitted_ntwk)),
             trace |-> <<solve, [ev |-> "write_touchstone", path |-> save_path.val]>>]

\* outcome is what curve_fit does in this call
fit_exp_decay_fn(fs, s1p_ntwk, guess_A_real, guess_A_imag, guess_delay, guess_alpha, save_path, outcome) ==
    LET f == s1p_ntwk.f
        gamma_meas == s1p_ntwk.s
        gamma_meas_comb == RealImag(gamma_meas)
        p0 == <<guess_A_real, guess_A_imag, guess_delay, guess_alpha>>
        solve == [ev |-> "curve_fit", xdata |-> f, ydata |-> gamma_meas_comb,
                  p0 |-> p0, outcome |-> outcome]
    IN IF outcome.kind = "raise"
       THEN [ret |-> outcome, files |-> fs, trace |-> <<solve>>]
       ELSE LET popt == outcome.val
                A_fitted == <<popt[1], popt[2]>>
                t_delay_fitted == popt[3]
                alpha_fitted == popt[4]
                s1p_fitted ==
                    [i \in 1..Len(f) |->
                        ModelValue(A_fitted, alpha_fitted, t_delay_fitted, f[i])]
                s1p_fitted_ntwk == Network(s1p_fitted, f)
                result == Return(<<A_fitted, t_delay_fitted, alpha_fitted, s1p_fitted_ntwk>>)
            IN IF save_path.isNone
               THEN [ret |-> result, files |-> fs, trace |-> <<solve>>]
               ELSE [ret |-> result,
                     files |-> WriteFile(fs, save_path.val, Touchstone(s1p_fitted_ntwk)),
                     trace |-> <<solve, [ev |-> "write_touchstone", path |-> save_path.val]>>]

\* a mutant of fit_reflection_coeff_fn: a file already at save_path is kept
fit_reflection_coeff_fn_keep(fs, s1p_ntwk, guess_A_real, guess_A_imag, guess_delay, save_path, outcome) ==
    LET f == s1p_ntwk.f
        p0 == <<guess_A_real, guess_A_imag, guess_delay>>
        solve == [ev |-> "curve_fit", xdata |-> f, ydata |-> RealImag(s1p_ntwk.s),
                  p0 |-> p0, outcome |-> outcome]
    IN IF outcome.kind = "raise"
       THEN [ret |-> outcome, files |-> fs, trace |-> <<solve>>]
       ELSE LET popt == outcome.val
                A_fitted == <<popt[1], popt[2]>>
                s1p_fitted == [i \in 1..Len(f) |-> ModelValue(A_fitted, 0, popt[3], f[i])]
                s1p_fitted_ntwk == Network(s1p_fitted, f)
                result == Return(<<A_fitted, popt[3], s1p_fitted_ntwk>>)
            IN IF save_path.isNone \/ save_path.val \in DOMAIN fs
               THEN [ret |-> result, files |-> fs, trace |-> <<solve>>]
               ELSE [ret |-> result,
                     files |-> WriteFile(fs, save_path.val, Touchstone(s1p_fitted_ntwk)),
                     trace |-> <<solve, [ev |-> "write_touchstone", path |-> save_path.val]>>]

\* the delay-only model has no decay factor: its decay rate is 0
fit_reflection_coeff_fn(fs, s1p_ntwk, guess_A_real, guess_A_imag, guess_delay, save_path, outcome) ==
    LET f == s1p_ntwk.f
        gamma_meas == s1p_ntwk.s
        gamma_meas_comb == RealImag(gamma_meas)
        p0 == <<guess_A_real, guess_A_imag, guess_delay>>
        solve == [ev |-> "curve_fit", xdata |-> f, ydata |-> gamma_meas_comb,
                  p0 |-> p0, outcome |-> outcome]
    IN IF outcome.kind = "raise"
       THEN [ret |-> outcome, files |-> fs, trace |-> <<solve>>]
       ELSE LET popt == outcome.val
                A_fitted == <<popt[1], popt[2]>>
                t_delay_fitted == popt[3]
                s1p_fitted ==
                    [i \in 1..Len(f) |-> ModelValue(A_fitted, 0, t_delay_fitted, f[i])]
                s1p_fitted_ntwk == Network(s1p_fitted, f)
                result == Return(<<A_fitted, t_delay_fitted, s1p_fitted_ntwk>>)
            IN IF save_path.isNone
               THEN [ret |-> result, files |-> fs, trace |-> <<solve>>]
               ELSE [ret |-> result,
                     files |-> WriteFile(fs, save_path.val, Touchstone(s1p_fitted_ntwk)),
                     trace |-> <<solve, [ev |-> "write_touchstone", path |-> save_path.val]>>]

\* the measured responses given to the fitters
FitNetworks == {Ramp(n, Cx(0, 1, 2)) : n \in 1..MaxPts}

\* initial guesses: A_real, A_imag, t_delay, alpha
Guesses == {<<1, 0, 0, 0>>, <<0, 1, 1, 1>>}

FitOut == pjoin("out", <<"fit.s1p">>)

\* save_path: omitted, a new file, or a file that exists
SavePaths == {None, Some(FitOut), Some(FileA_y)}

fit_exp_decay ==
    /\ ret # Pending /\ ncalls < MaxCalls
    /\ \E ntwk \in FitNetworks, g \in Guesses, save_path \in SavePaths :
          \E outcome \in curve_fit(ntwk.f, RealImag(ntwk.s), g) :
             LET out == fit_exp_decay_fn(files, ntwk, g[1], g[2], g[3], g[4],
                                         save_path, outcome)
             IN /\ call' = [fn |-> "fit_exp_decay", s1p_ntwk |-> ntwk, guess |-> g,
                            save_path |-> save_path]
                /\ ret' = out.ret
                /\ files' = out.files
                /\ trace' = out.trace
    /\ argsAfter' = None
    /\ files0' = files /\ dirs0' = dirs
    /\ ncalls' = ncalls + 1
    /\ UNCHANGED dirs

fit_reflection_coeff ==
    /\ ret # Pending /\ ncalls < MaxCalls
    /\ \E ntwk \in FitNetworks, g \in Guesses, save_path \in SavePaths :
          \E outcome \in curve_fit(ntwk.f, RealImag(ntwk.s), SubSeq(g, 1, 3)) :
             LET out == fit_reflection_coeff_fn(files, ntwk, g[1], g[2], g[3],
                                                save_path, outcome)
             IN /\ call' = [fn |-> "fit_reflection_coeff", s1p_ntwk |-> ntwk,
                            guess |-> SubSeq(g, 1, 3), save_path |-> save_path]
                /\ ret' = out.ret
                /\ files' = out.files
                /\ trace' = out.trace
    /\ argsAfter' = None
    /\ files0' = files /\ dirs0' = dirs
    /\ ncalls' = ncalls + 1
    /\ UNCHANGED dirs

SpecFit == InitIdle /\ [][fit_exp_decay \/ fit_reflection_coeff]_vars

FitDone == call.fn \in {"fit_exp_decay", "fit_reflection_coeff"}

\* the response a successful fit returns: the last component of the tuple
Fitted == ret.val[Len(ret.val)]

\* C5: when the solver fails to converge the call fails with that error:
\* nothing is returned, the solver is not run again with another guess, and no
\* file is written, whether or not a save_path was given.
C5_NoPartialResult ==
    (FitDone /\ trace[1].outcome = Raise("RuntimeError")) =>
        /\ ret = Raise("RuntimeError")
        /\ Len(trace) = 1
        /\ trace[1].ev = "curve_fit" /\ trace[1].p0 = call.guess
        /\ files = files0 /\ dirs = dirs0

\* a failed fit with a save_path: the file there is the one that was there
C5_Witness ==
    /\ call.fn = "fit_exp_decay"
    /\ call.save_path = Some(FileA_y)
    /\ trace[1].outcome = Raise("RuntimeError")
    /\ ret.kind = "raise"
    /\ files[FileA_y] = InitFiles[FileA_y]

\* C7: after a successful fit the synthesized response is written if and only
\* if a save_path was given: without one no file is created or changed; with
\* one the file at that path holds the synthesized response, whatever was
\* there before, and no other file changes.
C7_SavedIffPath ==
    (FitDone /\ ret.kind = "return") =>
        /\ call.save_path.isNone =>
              /\ files = files0
              /\ \A i \in 1..Len(trace) : trace[i].ev # "write_touchstone"
        /\ ~call.save_path.isNone =>
              /\ DOMAIN files = DOMAIN files0 \cup {call.save_path.val}
              /\ files[call.save_path.val] = Touchstone(Fitted)
              /\ \A q \in DOMAIN files0 : q # call.save_path.val => files[q] = files0[q]
              /\ Cardinality({i \in 1..Len(trace) : trace[i].ev = "write_touchstone"}) = 1
        /\ dirs = dirs0

\* the measurement file y.s1p is replaced by the fitted response
C7_Witness ==
    /\ call.fn = "fit_reflection_coeff"
    /\ ret.kind = "return"
    /\ call.save_path = Some(FileA_y)
    /\ FileA_y \in DOMAIN files0
    /\ files0[FileA_y] # files[FileA_y]
    /\ files[FileA_y] = Touchstone(Fitted)

----------------------------------------------------------------------------
(* The plotting functions *)

\* 20*log10(abs(s)) for scale 'log', abs(s) otherwise: an array of Len(s) values,
\* kept as a term over s
Magnitude(s, scale) == [n |-> Len(s), of |-> s, unit |-> IF scale = "log" THEN "dB" ELSE "abs"]

\* np.angle(s, deg=True)
Phase(s) == [n |-> Len(s), of |-> s, unit |-> "deg"]

\* 1 / (a / b) for two arrays that broadcast
InverseRatio(a, b) == [n |-> IF a.n >= b.n THEN a.n ELSE b.n, num |-> b, den |-> a]

\* Axes.plot(x, y): x and y must have the same length
CanPlot(x, y) == Len(x) = y.n

Line(x, y, label) == [x |-> x, y |-> y, label |-> label]

\* the file Figure.savefig writes
Image(fig) == [kind |-> "image", fig |-> fig]

SaveFig(path) == [ev |-> "savefig", path |-> path]

Show(fig) == [ev |-> "show", fig |-> fig]

Warn == [ev |-> "print", text |-> "! Save path not entered."]

\* the outcome of a plotting call: what it returns or raises, the file system
\* and the effects
Outcome(r, fs, ds, tr) == [ret |-> r, files |-> fs, dirs |-> ds, trace |-> tr]

\* a mutant of SaveOrWarn: a missing save path is passed over in silence
SaveOrWarn_silent(fs, fig, save_plot, save_path) ==
    IF save_plot /\ ~save_path.isNone
    THEN [files |-> WriteFile(fs, save_path.val, Image(fig)),
          trace |-> <<SaveFig(save_path.val)>>]
    ELSE [files |-> fs, trace |-> <<>>]

\* if save_plot: savefig(save_path) if a path was given, else print the warning
SaveOrWarn(fs, fig, save_plot, save_path) ==
    IF ~save_plot THEN [files |-> fs, trace |-> <<>>]
    ELSE IF ~save_path.isNone
    THEN [files |-> WriteFile(fs, save_path.val, Image(fig)),
          trace |-> <<SaveFig(save_path.val)>>]
    ELSE [files |-> fs, trace |-> <<Warn>>]

\* a mutant of ArityOk: at least two entries are accepted
ArityOk_atLeast(ntwk_dict) == Len(ntwk_dict) >= 2

\* assert len(ntwk_dict) == 2
ArityOk(ntwk_dict) == Len(ntwk_dict) = 2

plot_measured_vs_fitted_fn(fs, ds, ntwk_dict, scale, save_plot, save_path, title) ==
    IF ~ArityOk(ntwk_dict) THEN Outcome(Raise("AssertionError"), fs, ds, <<>>)
    ELSE
    LET ks == keys(ntwk_dict)
        measured_ntwk == Get(ntwk_dict, ks[1])
        fitted_ntwk == Get(ntwk_dict, ks[2])
        freq == measured_ntwk.f
        spec_measured == measured_ntwk.s
        spec_fitted == fitted_ntwk.s
        mag_measured == Magnitude(spec_measured, scale)
        mag_fitted == Magnitude(spec_fitted, scale)
        inverse == InverseRatio(mag_measured, mag_fitted)
        fig == [kind |-> "measured_vs_fitted", title |-> title,
                mag |-> <<Line(freq, mag_measured, ks[1]), Line(freq, mag_fitted, ks[2])>>,
                ratio |-> <<Line(freq, inverse, <<>>)>>]
    IN IF ~CanBroadcast(spec_measured, spec_fitted)
          \/ ~CanPlot(freq, mag_measured) \/ ~CanPlot(freq, mag_fitted)
          \/ ~CanPlot(freq, inverse)
       THEN Outcome(Raise("ValueError"), fs, ds, <<>>)
       ELSE LET sv == SaveOrWarn(fs, fig, save_plot, save_path)
            IN Outcome(Return(None), sv.files, ds, sv.trace \o <<Show(fig)>>)

\* plt.rcParams['axes.prop_cycle'].by_key()['color']
color_cycle == <<"C0", "C1", "C2", "C3", "C4", "C5", "C6", "C7", "C8", "C9">>

plot_s11_reflect_fn(fs, ds, ntwk_dict, scale, save_plot, show_phase, save_path, title) ==
    LET color(idx) == color_cycle[(idx % Len(color_cycle)) + 1]
        mag == [i \in 1..Len(ntwk_dict) |->
                  [line |-> Line(ntwk_dict[i][2].f, Magnitude(ntwk_dict[i][2].s, scale),
                                 ntwk_dict[i][1]),
                   color |-> color(i - 1)]]
        phase == IF show_phase
                 THEN [i \in 1..Len(ntwk_dict) |->
                         [line |-> Line(ntwk_dict[i][2].f, Phase(ntwk_dict[i][2].s),
                                        ntwk_dict[i][1]),
                          color |-> color(i - 1)]]
                 ELSE <<>>
        fig == [kind |-> "s11", title |-> title, nrows |-> IF show_phase THEN 2 ELSE 1,
                mag |-> mag, phase |-> phase]
        sv == SaveOrWarn(fs, fig, save_plot, save_path)
    IN Outcome(Return(None), sv.files, ds, sv.trace \o <<Show(fig)>>)

\* Network.plot_s_smith, one trace per entry
SmithTraces(ntwk_dict) ==
    [i \in 1..Len(ntwk_dict) |-> [label |-> ntwk_dict[i][1], s |-> ntwk_dict[i][2].s]]

\* the per-trace charts from entry i on: one figure each, saved under a name
\* without a directory when save_plot is set, and never shown
RECURSIVE SmithIndividual(_, _, _, _, _, _)
SmithIndividual(fs, tr, ntwk_dict, suffix, save_plot, i) ==
    IF i > Len(ntwk_dict) THEN [files |-> fs, trace |-> tr]
    ELSE LET label == ntwk_dict[i][1]
             fig == [kind |-> "smith", title |-> <<"Smith Chart: ">> \o label,
                     traces |-> <<[label |-> label, s |-> ntwk_dict[i][2].s]>>]
             label_safe == replace(label, " ", "_")
             outname == suffix \o <<"_smith_">> \o label_safe \o <<".png">>
         IN IF save_plot
            THEN SmithIndividual(WriteFile(fs, InCwd(outname), Image(fig)),
                                 Append(tr, SaveFig(InCwd(outname))),
                                 ntwk_dict, suffix, save_plot, i + 1)
            ELSE SmithIndividual(fs, tr, ntwk_dict, suffix, save_plot, i + 1)

plot_smith_chart_fn(fs, ds, ntwk_dict, suffix, save_plot, save_dir, individual) ==
    LET fig == [kind |-> "smith", title |-> suffix \o <<" Smith Chart">>,
                traces |-> SmithTraces(ntwk_dict)]
        suffix1 == IF save_plot THEN replace(suffix, " ", "_") ELSE suffix
        save_dir1 == IF save_dir.isNone THEN getcwd ELSE save_dir.val
        made == save_plot /\ ~exists(ds, save_dir1)
        ds1 == IF made THEN makedirs(ds, save_dir1) ELSE ds
        combined == pjoin(save_dir1, suffix1 \o <<"_smith_chart.png">>)
        fs1 == IF save_plot THEN WriteFile(fs, combined, Image(fig)) ELSE fs
        tr1 == (IF made THEN <<[ev |-> "makedirs", dir |-> save_dir1]>> ELSE <<>>)
               \o (IF save_plot THEN <<SaveFig(combined)>> ELSE <<>>)
               \o <<Show(fig)>>
        each == IF individual
                THEN SmithIndividual(fs1, tr1, ntwk_dict, suffix1, save_plot, 1)
                ELSE [files |-> fs1, trace |-> tr1]
    IN Outcome(Return(None), each.files, ds1, each.trace)

\* the labeled collections given to the plotting functions: none, one, two on
\* one grid, two on grids of different lengths, and three entries
Dict0 == <<>>

Dict1 == << <<(<<"a", " ", "b">>), Ramp(2, Cx(0, 1, 2))>> >>

Dict2 == << <<(<<"m">>), Ramp(2, Cx(0, 1, 2))>>, <<(<<"f">>), Ramp(2, Cx(1, 0, 1))>> >>

Dict2x == << <<(<<"m">>), Ramp(2, Cx(0, 1, 2))>>, <<(<<"f">>), Ramp(1, Cx(1, 0, 1))>> >>

Dict3 ==
    << <<(<<"m">>), Ramp(2, Cx(0, 1, 2))>>, <<(<<"f">>), Ramp(2, Cx(1, 0, 1))>>,
       <<(<<"a", " ", "b">>), Ramp(1, Cx(0, 0, 1))>> >>

PlotDicts == {Dict0, Dict1, Dict2, Dict2x, Dict3}

Scales == {"linear", "log"}

PlotOut == pjoin("out", <<"plot.png">>)

PlotPaths == {None, Some(PlotOut)}

\* save_dir: omitted, a directory that exists, a directory that does not
SaveDirs == {None, Some("out"), Some("plots")}

Suffixes == {<<"LNA">>, <<"my", " ", "LNA">>}

plot_measured_vs_fitted ==
    /\ ret # Pending /\ ncalls < MaxPlotCalls
    /\ \E d \in PlotDicts, scale \in Scales, save_plot \in BOOLEAN, save_path \in PlotPaths :
          LET out == plot_measured_vs_fitted_fn(files, dirs, d, scale, save_plot, save_path,
                                                <<"Measured vs Fitted Spectrum">>)
          IN /\ call' = [fn |-> "plot_measured_vs_fitted", ntwk_dict |-> d, scale |-> scale,
                         save_plot |-> save_plot, save_path |-> save_path]
             /\ ret' = out.ret
             /\ files' = out.files
             /\ dirs' = out.dirs
             /\ trace' = out.trace
    /\ argsAfter' = None
    /\ files0' = files /\ dirs0' = dirs
    /\ ncalls' = ncalls + 1

plot_s11_reflect ==
    /\ ret # Pending /\ ncalls < MaxPlotCalls
    /\ \E d \in PlotDicts, scale \in Scales, save_plot \in BOOLEAN, show_phase \in BOOLEAN,
          save_path \in PlotPaths :
          LET out == plot_s11_reflect_fn(files, dirs, d, scale, save_plot, show_phase,
                                         save_path, <<"S11 Reflection Coefficient">>)
          IN /\ call' = [fn |-> "plot_s11_reflect", ntwk_dict |-> d, scale |-> scale,
                         save_plot |-> save_plot, show_phase |-> show_phase,
                         save_path |-> save_path]
             /\ ret' = out.ret
             /\ files' = out.files
             /\ dirs' = out.dirs
             /\ trace' = out.trace
    /\ argsAfter' = None
    /\ files0' = files /\ dirs0' = dirs
    /\ ncalls' = ncalls + 1

plot_smith_chart ==
    /\ ret # Pending /\ ncalls < MaxPlotCalls
    /\ \E d \in PlotDicts, suffix \in Suffixes, save_plot \in BOOLEAN, save_dir \in SaveDirs,
          individual \in BOOLEAN :
          LET out == plot_smith_chart_fn(files, dirs, d, suffix, save_plot, save_dir,
                                         individual)
          IN /\ call' = [fn |-> "plot_smith_chart", ntwk_dict |-> d, suffix |-> suffix,
                         save_plot |-> save_plot, save_dir |-> save_dir,
                         individual |-> individual]
             /\ ret' = out.ret
             /\ files' = out.files
             /\ dirs' = out.dirs
             /\ trace' = out.trace
    /\ argsAfter' = None
    /\ files0' = files /\ dirs0' = dirs
    /\ ncalls' = ncalls + 1

SpecPlot == InitIdle /\ [][plot_measured_vs_fitted \/ plot_s11_reflect \/ plot_smith_chart]_vars

----------------------------------------------------------------------------
(* The plotting functions: the claims *)

SaveFigs == {i \in 1..Len(trace) : trace[i].ev = "savefig"}

Shows == {i \in 1..Len(trace) : trace[i].ev = "show"}

Prints == {i \in 1..Len(trace) : trace[i].ev = "print"}

\* the two entries of the collection have equally many frequency points
SameLength == Len(call.ntwk_dict[1][2].s) = Len(call.ntwk_dict[2][2].s)

\* C3 as stated: plot_measured_vs_fitted fails with the arity error for every
\* collection that has not exactly two entries, before any figure is saved or
\* shown; with exactly two entries it completes without raising, the first
\* entry plotted as measured and the second as fitted.
C3_ArityOnly ==
    (call.fn = "plot_measured_vs_fitted") =>
        /\ Len(call.ntwk_dict) # 2 =>
              /\ ret = Raise("AssertionError")
              /\ trace = <<>> /\ files = files0 /\ dirs = dirs0
        /\ Len(call.ntwk_dict) = 2 =>
              /\ ret = Return(None)
              /\ Cardinality(Shows) = 1

\* C3 as amended: as stated for collections that have not exactly two entries;
\* with exactly two entries whose responses have equally many frequency points
\* the call completes without raising and shows one figure, the first inserted
\* entry plotted as measured and the second as fitted; with two entries of
\* different lengths it raises a ValueError before anything is saved or shown.
C3_ArityAndShape ==
    (call.fn = "plot_measured_vs_fitted") =>
        /\ Len(call.ntwk_dict) # 2 =>
              /\ ret = Raise("AssertionError")
              /\ trace = <<>> /\ files = files0 /\ dirs = dirs0
        /\ (Len(call.ntwk_dict) = 2 /\ SameLength) =>
              /\ ret = Return(None)
              /\ Cardinality(Shows) = 1
              /\ LET fig == trace[Len(trace)].fig
                 IN /\ trace[Len(trace)].ev = "show"
                    /\ fig.mag[1].label = call.ntwk_dict[1][1]
                    /\ fig.mag[1].y.of = call.ntwk_dict[1][2].s
                    /\ fig.mag[2].label = call.ntwk_dict[2][1]
                    /\ fig.mag[2].y.of = call.ntwk_dict[2][2].s
                    /\ fig.ratio[1].y.num.of = call.ntwk_dict[2][2].s
                    /\ fig.ratio[1].y.den.of = call.ntwk_dict[1][2].s
        /\ (Len(call.ntwk_dict) = 2 /\ ~SameLength) =>
              /\ ret = Raise("ValueError")
              /\ trace = <<>> /\ files = files0 /\ dirs = dirs0

\* three entries and a save path: the assertion fails, no image is written
C3_Witness ==
    /\ call.fn = "plot_measured_vs_fitted"
    /\ call.ntwk_dict = Dict3
    /\ call.save_plot /\ call.save_path = Some(PlotOut)
    /\ ret = Raise("AssertionError")
    /\ PlotOut \notin DOMAIN files
    /\ trace = <<>>

\* the call asks for a save and names no place for it
SaveWithoutPath ==
    /\ call.fn \in {"plot_measured_vs_fitted", "plot_s11_reflect", "plot_smith_chart"}
    /\ call.save_plot
    /\ IF call.fn = "plot_smith_chart" THEN call.save_dir.isNone ELSE call.save_path.isNone

\* the collection is one the function can draw: for plot_measured_vs_fitted,
\* two entries of equal length
Drawable ==
    call.fn = "plot_measured_vs_fitted" => (Len(call.ntwk_dict) = 2 /\ SameLength)

\* C4 as stated: each of the three plotting functions, called (with a
\* collection it can draw) with save_plot=True and no save path or directory,
\* prints the warning, writes no image file, does not raise and still shows
\* the figure.
C4_WarnAndSkip ==
    (SaveWithoutPath /\ Drawable) =>
        /\ ret = Return(None)
        /\ Prints # {}
        /\ SaveFigs = {} /\ files = files0
        /\ Shows # {}

\* C4 as amended: plot_measured_vs_fitted (given two entries of equal length)
\* and plot_s11_reflect, called with save_plot=True and no save_path, print the
\* warning once, write no image file, do not raise and then show the figure.
\* plot_smith_chart prints no warning: with save_plot=True and no save_dir it
\* writes the combined chart into the working directory, does not raise and
\* then shows the figure.
C4_WarnOrSaveInCwd ==
    (SaveWithoutPath /\ Drawable) =>
        /\ call.fn \in {"plot_measured_vs_fitted", "plot_s11_reflect"} =>
              /\ ret = Return(None)
              /\ Len(trace) = 2
              /\ trace[1] = Warn
              /\ trace[2].ev = "show"
              /\ files = files0 /\ dirs = dirs0
        /\ call.fn = "plot_smith_chart" =>
              /\ ret = Return(None)
              /\ Prints = {}
              /\ trace[1].ev = "savefig" /\ trace[1].path.dir = Cwd
              /\ trace[1].path \in DOMAIN files
              /\ trace[2].ev = "show"
              /\ dirs = dirs0

\* measured against fitted, save asked for without a path: warning, then the figure
C4_Witness ==
    /\ call.fn = "plot_measured_vs_fitted"
    /\ call.ntwk_dict = Dict2
    /\ call.save_plot /\ call.save_path.isNone
    /\ ret = Return(None)
    /\ Len(trace) = 2 /\ trace[1] = Warn /\ trace[2].ev = "show"
    /\ files = files0

\* C10: plot_smith_chart with save_plot=True and a save_dir creates save_dir
\* if it does not exist, and every image file it writes, the combined chart
\* and with individual=True one chart per trace, is written inside save_dir
\* under a name formed from the suffix and the label with spaces replaced by
\* underscores.
C10_AllInsideSaveDir ==
    (call.fn = "plot_smith_chart" /\ call.save_plot /\ ~call.save_dir.isNone) =>
        LET sfx == replace(call.suffix, " ", "_")
            names == {sfx \o <<"_smith_chart.png">>}
                     \cup {sfx \o <<"_smith_">> \o replace(call.ntwk_dict[i][1], " ", "_")
                               \o <<".png">> : i \in 1..Len(call.ntwk_dict)}
        IN /\ call.save_dir.val \in dirs
           /\ Cardinality(SaveFigs) =
                 1 + (IF call.individual THEN Len(call.ntwk_dict) ELSE 0)
           /\ \A i \in SaveFigs :
                 /\ trace[i].path.dir = call.save_dir.val
                 /\ trace[i].path.name \in names
                 /\ trace[i].path \in DOMAIN files

----------------------------------------------------------------------------
(* The module as a whole: a script calls the functions in any order *)

Init == InitLoad \/ InitCombine \/ InitPower \/ InitIdle

Next ==
    \/ load_s1p
    \/ LNA_total_reflection
    \/ s11_reflected_power
    \/ fit_exp_decay
    \/ fit_reflection_coeff
    \/ plot_measured_vs_fitted
    \/ plot_s11_reflect
    \/ plot_smith_chart

Spec == Init /\ [][Next]_vars

====
